---- MODULE Spec2Model ----
(***************************************************************************)
(* A model of the rastOS backup subsystem: the BackupManager pipeline      *)
(* (src/src/backup/mod.rs) over the local storage backend                  *)
(* (src/src/backup/storage/local.rs) and the btrfs snapshot wrappers       *)
(* (src/src/backup/snapshot.rs, src/src/backup/btrfs/mod.rs), the AES-GCM  *)
(* encryption provider (src/src/backup/encryption/mod.rs) and the          *)
(* SnapshotTree lineage index (src/src/snapshot/mod.rs).                   *)
(*                                                                         *)
(* Several specifications share the module, one per component: Spec (the   *)
(* backup manager), SpecEnc (the encryption provider), SpecTree (the       *)
(* snapshot tree), SpecAuth (the API key manager), SpecRequests            *)
(* (concurrent requests on one snapshot manager) and SpecPath (path        *)
(* resolution of the local storage backend).  Each keeps the variables of  *)
(* the others at their initial values.                                     *)
(***************************************************************************)
EXTENDS Integers, Sequences, FiniteSets, TLC

VARIABLES
    \* ---- backup manager (Spec) ----
    files,      \* files of the storage backend: resolved path -> content
    dirs,       \* directories of the storage backend that exist
    subvols,    \* btrfs subvolumes on disk: path -> content
    tmp,        \* the manager's temp_dir: file name -> content
    now,        \* wall clock, in seconds
    nextUuid,   \* number of Uuid::new_v4() values drawn so far
    issued,     \* backup ids generated so far
    calls,      \* number of manager calls made
    pc,         \* position inside the running manager operation
    cur,        \* arguments and locals of the running operation
    ret,        \* what the last finished operation returned
    noFault,    \* no I/O fault, command failure or crash was injected so far
    config,     \* the BackupConfig the manager was built with
    \* ---- encryption provider (SpecEnc) ----
    plain,      \* plaintext buffer handed to encrypt
    cipher,     \* what encrypt returned
    decrypted,  \* what decrypt returned for cipher
    epc,        \* position of the encrypt/decrypt round trip
    epos,       \* the loop variable pos of the running encrypt or decrypt
    \* ---- snapshot tree (SpecTree) ----
    snapshots,  \* SnapshotTree.snapshots: id -> Snapshot
    roots,      \* SnapshotTree.roots
    tret,       \* the last tree call: operation, argument, result, tree before
    tcount,     \* number of tree calls made
    \* ---- ApiKeyManager (SpecAuth) ----
    keys,       \* ApiKeyManager.keys: key -> ApiKey
    lock,       \* the RwLock around keys: its writer and its readers
    apc,        \* position of each thread inside its ApiKeyManager call
    areq,       \* the call each thread is running
    ares,       \* the call that returned last and its result
    anow,       \* SystemTime::now(), in seconds
    acount,     \* number of ApiKeyManager calls made
    \* ---- concurrent requests on one SnapshotManager (SpecRequests) ----
    qdisk,      \* btrfs subvolumes on disk: path -> content
    qpc,        \* position of each request
    qloc,       \* locals of each request
    qnow,       \* wall clock, in seconds
    quuid,      \* number of Uuid::new_v4() values drawn by the requests
    qcount,     \* number of requests started
    \* ---- LocalStorage path resolution (SpecPath) ----
    pfiles,     \* files on the whole disk: absolute location -> content
    pret,       \* the last storage call: operation, path, location, result
    pcount      \* number of storage calls made

bvars == <<files, dirs, subvols, tmp, now, nextUuid, issued, calls, pc, cur, ret, noFault,
           config>>
evars == <<plain, cipher, decrypted, epc, epos>>
tvars == <<snapshots, roots, tret, tcount>>
avars == <<keys, lock, apc, areq, ares, anow, acount>>
qvars == <<qdisk, qpc, qloc, qnow, quuid, qcount>>
pvars == <<pfiles, pret, pcount>>
vars == <<bvars, evars, tvars, avars, qvars, pvars>>

\* what the actions of one specification leave alone
nonBackup == <<evars, tvars, avars, qvars, pvars>>
nonEnc == <<bvars, tvars, avars, qvars, pvars>>
nonTree == <<bvars, evars, avars, qvars, pvars>>
nonAuth == <<bvars, evars, tvars, qvars, pvars>>
nonRequests == <<bvars, evars, tvars, avars, pvars>>
nonPath == <<bvars, evars, tvars, avars, qvars>>

-----------------------------------------------------------------------------
(* Bounds of the model.                                                    *)
MaxCalls == 2       \* manager calls in one behaviour
MaxTime == 1        \* the clock runs over 0..MaxTime
MaxContent == 2     \* the subvolume's content runs over versions 1..MaxContent
MaxChunks == 2      \* plaintexts are at most MaxChunks chunks long
MaxTreeCalls == 3   \* SnapshotTree calls in one behaviour
MaxAuthCalls == 3   \* ApiKeyManager calls in one behaviour
MaxAuthTime == 1    \* the ApiKeyManager's clock runs over 0..MaxAuthTime
MaxRequests == 3    \* requests started on the SnapshotManager in one behaviour
MaxPathCalls == 2   \* LocalStorage calls in one behaviour
MaxPathLen == 2     \* components of a logical path after its optional root

-----------------------------------------------------------------------------
(* Generic helpers over finite maps.                                       *)
MapPut(f, k, v) == [x \in DOMAIN f \cup {k} |-> IF x = k THEN v ELSE f[x]]
MapDel(f, k) == [x \in DOMAIN f \ {k} |-> f[x]]
EmptyMap == [x \in {} |-> 0]

-----------------------------------------------------------------------------
(* Identifiers.  A uuid is a string; it is modelled as the sequence of its *)
(* characters so that the &id[..2] shard prefix is computed, not assumed.  *)
Hex == <<"0", "1", "2", "3", "4", "5", "6", "7",
         "8", "9", "a", "b", "c", "d", "e", "f">>
Uuid(k) == <<"0", Hex[((k \div 4) % 16) + 1], Hex[(k % 16) + 1]>>
NoId == <<>>
Shard(id) == SubSeq(id, 1, 2)

\* format!("backups/{}/{}.btrfs", &id[..2], id)
BlobPath(id) == <<<<"backups">>, Shard(id), id \o <<".btrfs">>>>
\* format!("backups/{}/{}/metadata.json", &id[..2], id)
MetadataPath(id) == <<<<"backups">>, Shard(id), id, <<"metadata.json">>>>
BackupPrefix == <<<<"backups">>>>

-----------------------------------------------------------------------------
(* Subvolume names and paths.                                              *)
Name(base) == [base |-> base, ts |-> -1]
\* format!("{}_{}", subvolume.file_name(), Utc::now().format("%Y%m%d_%H%M%S"))
SnapshotName(base, t) == [base |-> base, ts |-> t]
NoName == Name("")
DiskPath(dir, name) == [dir |-> dir, name |-> name]
NoPath == DiskPath("", NoName)
SubvolumePath == DiskPath("src", Name("data"))
SnapshotDir == "snapshots"
RestoreDir == "restore"

-----------------------------------------------------------------------------
(* Results.  Every fallible call returns [status, err, v].                 *)
Ok(v) == [status |-> "Ok", err |-> "", v |-> v]
Err(e, v) == [status |-> "Err", err |-> e, v |-> v]

(* File contents: ok = FALSE marks a file that a failed write left         *)
(* truncated; v is what a complete write would have stored.                *)
Whole(v) == [ok |-> TRUE, v |-> v]
Truncated(v) == [ok |-> FALSE, v |-> v]

-----------------------------------------------------------------------------
(* LocalStorage (src/src/backup/storage/local.rs).                         *)
BaseDir == <<"$base">>
RootDir == <<"/">>
ParentDir == <<"..">>

IsNotParentDir(c) == c # ParentDir

\* resolve_path: drop the ParentDir components, then base_path.join(path);
\* PathBuf::join replaces the base when the joined path is absolute.
ResolvePath(path) ==
    LET kept == SelectSeq(path, IsNotParentDir)
    IN  IF kept # <<>> /\ kept[1] = RootDir THEN kept ELSE <<BaseDir>> \o kept

ParentOf(full) == SubSeq(full, 1, Len(full) - 1)

\* every ancestor directory of a resolved path (create_dir_all(parent))
AncestorsOf(full) == {SubSeq(full, 1, n) : n \in 1..(Len(full) - 1)}

\* put: create_dir_all(parent), File::create, write_all
LocalPut(f, path, data) == MapPut(f, ResolvePath(path), data)
LocalPutDirs(d, path) == d \cup AncestorsOf(ResolvePath(path))

\* get: fs::read(full_path)
LocalGet(f, path) ==
    LET full == ResolvePath(path)
    IN  IF full \in DOMAIN f THEN Ok(f[full]) ELSE Err("NotFound", Whole(0))

\* delete: remove_file only if the path exists
LocalDelete(f, path) == MapDel(f, ResolvePath(path))

\* exists
LocalExists(f, path) == ResolvePath(path) \in DOMAIN f

\* list: read_dir(base) (an error when the directory does not exist), keep
\* the entries that are files, strip the base path from each
LocalList(f, d, prefix) ==
    LET base == ResolvePath(prefix)
    IN  IF base \notin d
        THEN Err("NotFound", {})
        ELSE Ok({SubSeq(p, 2, Len(p)) :
                    p \in {q \in DOMAIN f : ParentOf(q) = base /\ q[1] = BaseDir}})

\* upload_file mutated: the call returns without having stored the object
UploadFile_Lost(f, path, content) == f

\* the manager's upload_file(local file, path) and write(path, bytes): the
\* object at path becomes the given content
UploadFile(f, path, content) == LocalPut(f, path, content)
WriteObject(f, path, content) == LocalPut(f, path, content)
\* storage.delete mutated: the call returns without having removed the object
DeleteObject_Kept(f, path) == f

\* the manager's storage.delete(path)
DeleteObject(f, path) == LocalDelete(f, path)

-----------------------------------------------------------------------------
(* Backup records and their metadata encoding (src/src/backup/mod.rs).     *)
(* The name, description and free-form metadata fields take no part in any *)
(* decision of the manager and are left out of the record.                 *)
NoBackup ==
    [id |-> NoId, subvolume_path |-> NoPath, snapshot_path |-> NoPath,
     size |-> 0, created_at |-> 0, is_incremental |-> FALSE,
     parent_id |-> NoId, child_ids |-> <<>>]

\* serde_json::to_string_pretty(backup): a complete JSON document
ToJson(backup) == Whole(backup)
\* serde_json::from_str::<Backup>: fails on a truncated document
FromJson(content) ==
    IF content.ok THEN Ok(content.v) ELSE Err("Parse", NoBackup)

\* get_backup: read_to_string(metadata path), then parse
GetBackup(f, id) ==
    IF Len(id) < 2
    THEN [status |-> "Panic", err |-> "byte index 2 is out of bounds", v |-> NoBackup]
    ELSE LET r == LocalGet(f, MetadataPath(id))
         IN  IF r.status = "Ok" THEN FromJson(r.v) ELSE Err(r.err, NoBackup)

\* verify_backup: Ok(true) when get_backup is Ok, Ok(false) when it is Err;
\* a panic of get_backup unwinds through it
VerifyBackup(f, id) ==
    LET r == GetBackup(f, id)
    IN  IF r.status = "Panic" THEN [r EXCEPT !.v = FALSE] ELSE Ok(r.status = "Ok")

\* entry.ends_with("/metadata.json")
EndsWithMetadataJson(entry) ==
    Len(entry) >= 2 /\ entry[Len(entry)] = <<"metadata.json">>

\* backups.sort_by(|a, b| b.created_at.cmp(&a.created_at)): newest first
RECURSIVE SortNewestFirst(_)
SortNewestFirst(S) ==
    IF S = {} THEN <<>>
    ELSE LET b == CHOOSE x \in S : \A y \in S : y.created_at <= x.created_at
         IN  <<b>> \o SortNewestFirst(S \ {b})

\* list_backups: list("backups/"), keep the entries ending in
\* /metadata.json that read and parse, sort newest first
ListBackups(f, d) ==
    LET l == LocalList(f, d, BackupPrefix)
    IN  IF l.status # "Ok" THEN Err(l.err, <<>>)
        ELSE LET entries == {e \in l.v : EndsWithMetadataJson(e)}
                 parsed == {e \in entries :
                              /\ LocalGet(f, e).status = "Ok"
                              /\ FromJson(LocalGet(f, e).v).status = "Ok"}
             IN  Ok(SortNewestFirst({FromJson(LocalGet(f, e).v).v : e \in parsed}))

-----------------------------------------------------------------------------
(* btrfs wrappers (src/src/backup/btrfs/mod.rs) and the SnapshotManager    *)
(* (src/src/backup/snapshot.rs).                                           *)
NoSnapshot == [id |-> NoId, path |-> NoPath, parent_id |-> NoId]

\* format!("snap_{}", Uuid::new_v4())
SnapId(k) == <<"s", "n", "a", "p", "_">> \o Uuid(k)

\* One line of "btrfs subvolume list -p <dir>", split at whitespace:
\*   ID <id> gen <gen> parent <parent> top level <top> path <path>
\* Every token is written as a name; a number n is the name Num(n).
Num(n) == [base |-> "#", ts |-> n]
IsNum(tok) == tok.base = "#"
ListLine(p, n) ==
    <<Name("ID"), Num(256 + n), Name("gen"), Num(7), Name("parent"), Num(5),
      Name("top"), Name("level"), Num(5), Name("path"), p.name>>

\* Subvolume::list_subvolumes: of each line with at least 10 parts it parses
\* parts[1] and parts[3] as numbers and takes parts.get(9) as the path
\* (0-based: the tenth token), resolved against the working directory, and
\* keeps the path when Subvolume::from_path accepts it
WorkingDir == "."
ListSubvolumes(sv, dir) ==
    LET under == {p \in DOMAIN sv : p.dir = dir}
        line(p) == ListLine(p, Cardinality({q \in under : q.name.ts < p.name.ts}))
        picked(p) == DiskPath(WorkingDir, line(p)[10])
    IN  {picked(p) : p \in {q \in under :
            /\ Len(line(q)) >= 10
            /\ IsNum(line(q)[2]) /\ IsNum(line(q)[4])
            /\ line(q)[2].ts # 5
            /\ picked(q) \in DOMAIN sv}}

\* list_snapshots: one Snapshot per listed subvolume; no .snapinfo file is
\* ever written, so each gets a fresh snap_<uuid> id
ListSnapshots(sv, k) ==
    LET listed == ListSubvolumes(sv, SnapshotDir)
    IN  {[id |-> SnapId(k + Cardinality({q \in listed : q.name.ts < p.name.ts})),
          path |-> p, parent_id |-> NoId] : p \in listed}

\* find_snapshot: list_snapshots().into_iter().find(|s| s.id == id)
FindSnapshot(sv, k, id) ==
    LET m == {x \in ListSnapshots(sv, k) : x.id = id}
    IN  IF m = {} THEN NoSnapshot ELSE CHOOSE x \in m : TRUE

\* Subvolume::create_snapshot(source, dest): the checks before the command
\* and the command's own outcome io
CreateSnapshot(sv, source, dest, io) ==
    IF source \notin DOMAIN sv THEN Err("NotASubvolume", NoPath)
    ELSE IF dest \in DOMAIN sv THEN Err("SnapshotExists", NoPath)
    ELSE IF ~io THEN Err("CommandFailed", NoPath)
    ELSE Ok(dest)

\* Snapshot::create: the destination is snapshot_dir/<name>_<timestamp>; the
\* snapshot is taken of the parent snapshot's path when a parent is given
SnapshotCreate(sv, subvolume, parent, t, io) ==
    LET dest == DiskPath(SnapshotDir, SnapshotName(subvolume.name.base, t))
        source == IF parent # NoSnapshot THEN parent.path ELSE subvolume
    IN  CreateSnapshot(sv, source, dest, io)

\* Subvolume::send: Subvolume::from_path sets parent: None, so the command
\* never carries -p; the stream names the sent subvolume and holds its data,
\* base is the subvolume given with -p
SendStream(sv, path) == [name |-> path.name, data |-> sv[path], base |-> NoPath]
NoStream == [name |-> NoName, data |-> 0, base |-> NoPath]

\* Subvolume::receive(input, dest): "btrfs receive <dest.parent>" calls
\* the subvolume named in the stream inside dest's parent directory
ReceivedPath(stream, dest) == DiskPath(dest.dir, stream.name)

-----------------------------------------------------------------------------
(* The running operation of the BackupManager.                             *)
NoTmp == [pre |-> "", id |-> NoId]
NoCur ==
    [op |-> "", incremental |-> FALSE, parent |-> NoId, id |-> NoId,
     snap |-> NoPath, tmpf |-> NoTmp, target |-> NoPath, fresh |-> FALSE,
     backup |-> NoBackup]
NoRet ==
    [op |-> "", status |-> "", err |-> "", id |-> NoId, backup |-> NoBackup,
     target |-> NoPath, fresh |-> FALSE, incremental |-> FALSE, parent |-> NoId,
     valid |-> FALSE]

\* the operation returns to its caller
Return(status, err) ==
    /\ pc' = "idle"
    /\ cur' = NoCur
    /\ ret' = [op |-> cur.op, status |-> status, err |-> err, id |-> cur.id,
               backup |-> IF status = "Ok" /\ cur.op = "create"
                          THEN cur.backup ELSE NoBackup,
               target |-> IF cur.op = "restore" THEN cur.target ELSE NoPath,
               fresh |-> cur.op = "restore" /\ cur.fresh,
               incremental |-> cur.op = "create" /\ cur.incremental,
               parent |-> IF cur.op = "create" THEN cur.parent ELSE NoId,
               valid |-> FALSE]

\* backups a caller can hold a record of: those get_backup returns
Advertised(f, ids) == {id \in ids : GetBackup(f, id).status = "Ok"}

RestoreTargets ==
    {DiskPath(RestoreDir, Name("restored")),
     DiskPath(RestoreDir, SnapshotName(SubvolumePath.name.base, 0))}

\* BackupConfig::default(): EncryptionConfig::default() has enabled = false
DefaultConfig == [encryption |-> [enabled |-> FALSE]]

\* BackupManager::new(config)
InitManager(cfg) ==
    /\ files = EmptyMap
    /\ dirs = {<<BaseDir>>}
    /\ subvols = MapPut(EmptyMap, SubvolumePath, 1)
    /\ tmp = EmptyMap
    /\ now = 0
    /\ nextUuid = 0
    /\ issued = {}
    /\ calls = 0
    /\ pc = "idle"
    /\ cur = NoCur
    /\ ret = NoRet
    /\ noFault = TRUE
    /\ config = cfg

InitBackup == InitManager(DefaultConfig)

-----------------------------------------------------------------------------
(* create_backup (src/src/backup/mod.rs:151-221), one action per await.    *)

\* the call: create_backup(subvolume, name, description, incremental, parent)
CreateBackup(incremental, parent) ==
    /\ pc = "idle"
    /\ calls < MaxCalls
    /\ calls' = calls + 1
    /\ pc' = "c_snapshot"
    /\ cur' = [NoCur EXCEPT !.op = "create", !.incremental = incremental,
                            !.parent = parent]
    /\ UNCHANGED <<nonBackup, config, files, dirs, subvols, tmp, now, nextUuid, issued, ret, noFault>>

\* lines 162-178: resolve the parent snapshot, take the new snapshot
C_Snapshot(io) ==
    /\ pc = "c_snapshot"
    /\ LET listed == IF cur.parent # NoId
                     THEN Cardinality(ListSubvolumes(subvols, SnapshotDir)) ELSE 0
           parent == IF cur.parent # NoId
                     THEN FindSnapshot(subvols, nextUuid, cur.parent)
                     ELSE NoSnapshot
           r == IF cur.parent # NoId /\ ~io
                THEN Err("CommandFailed", NoPath)
                ELSE IF cur.parent # NoId /\ parent = NoSnapshot
                THEN Err("Parent snapshot not found", NoPath)
                ELSE SnapshotCreate(subvols, SubvolumePath, parent, now, io)
       IN  /\ nextUuid' = IF r.status = "Ok" THEN nextUuid + listed + 1
                           ELSE nextUuid
           /\ noFault' = (noFault /\ io)
           /\ IF r.status = "Ok"
              THEN /\ subvols' = MapPut(subvols, r.v,
                                        subvols[IF parent # NoSnapshot
                                                THEN parent.path ELSE SubvolumePath])
                   /\ cur' = [cur EXCEPT !.snap = r.v]
                   /\ pc' = "c_send"
                   /\ ret' = ret
              ELSE /\ subvols' = subvols
                   /\ Return("Err", r.err)
    /\ UNCHANGED <<nonBackup, config, files, dirs, tmp, now, issued, calls>>

\* lines 181-184: snapshot.send(&backup_file); Subvolume::send calls the
\* output file before it runs the command
C_Send(out) ==
    /\ pc = "c_send"
    /\ LET f == [pre |-> "", id |-> Uuid(nextUuid)]
           okPath == cur.snap \in DOMAIN subvols
       IN  /\ nextUuid' = nextUuid + 1
           /\ noFault' = (noFault /\ out = "ok")
           /\ IF out = "from_path" \/ ~okPath
              THEN tmp' = tmp /\ Return("Err", "NotASubvolume")
              ELSE IF out = "send"
              THEN /\ tmp' = MapPut(tmp, f, Truncated(SendStream(subvols, cur.snap)))
                   /\ Return("Err", "CommandFailed")
              ELSE /\ tmp' = MapPut(tmp, f, Whole(SendStream(subvols, cur.snap)))
                   /\ cur' = [cur EXCEPT !.tmpf = f]
                   /\ pc' = "c_upload"
                   /\ ret' = ret
    /\ UNCHANGED <<nonBackup, config, files, dirs, subvols, now, issued, calls>>

\* lines 187-192: a fresh backup id, then upload_file(&backup_file, path);
\* a failed upload leaves nothing or a truncated object behind
C_Upload(out) ==
    /\ pc = "c_upload"
    /\ LET id == Uuid(nextUuid)
       IN  /\ nextUuid' = IF out = "fail" THEN nextUuid ELSE nextUuid + 1
           /\ issued' = IF out = "fail" THEN issued ELSE issued \cup {id}
           /\ noFault' = (noFault /\ out = "ok")
           /\ IF out = "ok"
              THEN /\ files' = UploadFile(files, BlobPath(id), tmp[cur.tmpf])
                   /\ dirs' = LocalPutDirs(dirs, BlobPath(id))
                   /\ cur' = [cur EXCEPT !.id = id]
                   /\ pc' = "c_size"
                   /\ ret' = ret
              ELSE IF out = "partial"
              THEN /\ files' = UploadFile(files, BlobPath(id), Truncated(tmp[cur.tmpf].v))
                   /\ dirs' = LocalPutDirs(dirs, BlobPath(id))
                   /\ Return("Err", "Io")
              ELSE /\ UNCHANGED <<files, dirs>>
                   /\ Return("Err", "Io")
    /\ UNCHANGED <<nonBackup, config, subvols, tmp, now, calls>>

\* lines 195-212: the size of the temporary file, then the Backup record
C_Size(io) ==
    /\ pc = "c_size"
    /\ noFault' = (noFault /\ io)
    /\ IF io
       THEN /\ cur' = [cur EXCEPT !.backup =
                        [id |-> cur.id,
                         subvolume_path |-> SubvolumePath,
                         snapshot_path |-> cur.snap,
                         size |-> tmp[cur.tmpf].v.data,
                         created_at |-> now,
                         is_incremental |-> cur.incremental,
                         parent_id |-> cur.parent,
                         child_ids |-> <<>>]]
            /\ pc' = "c_save"
            /\ ret' = ret
       ELSE Return("Err", "Io")
    /\ UNCHANGED <<nonBackup, config, files, dirs, subvols, tmp, now, nextUuid, issued, calls>>

\* line 215 and save_backup_metadata (lines 316-329)
C_Save(out) ==
    /\ pc = "c_save"
    /\ noFault' = (noFault /\ out = "ok")
    /\ IF out = "ok"
       THEN /\ files' = WriteObject(files, MetadataPath(cur.id), ToJson(cur.backup))
            /\ dirs' = LocalPutDirs(dirs, MetadataPath(cur.id))
            /\ pc' = "c_cleanup"
            /\ UNCHANGED <<cur, ret>>
       ELSE IF out = "partial"
       THEN /\ files' = WriteObject(files, MetadataPath(cur.id), Truncated(cur.backup))
            /\ dirs' = LocalPutDirs(dirs, MetadataPath(cur.id))
            /\ Return("Err", "Io")
       ELSE /\ UNCHANGED <<files, dirs>>
            /\ Return("Err", "Io")
    /\ UNCHANGED <<nonBackup, config, subvols, tmp, now, nextUuid, issued, calls>>

\* lines 218-220: remove_file(backup_file).await.ok(); Ok(backup)
C_Cleanup(removed) ==
    /\ pc = "c_cleanup"
    /\ noFault' = (noFault /\ removed)
    /\ tmp' = IF removed THEN MapDel(tmp, cur.tmpf) ELSE tmp
    /\ Return("Ok", "")
    /\ UNCHANGED <<nonBackup, config, files, dirs, subvols, now, nextUuid, issued, calls>>

-----------------------------------------------------------------------------
(* verify_backup (src/src/backup/mod.rs:284-290), called with the id of a  *)
(* backup that was made or with another string: the empty string, one      *)
(* character, an id that was never generated, a longer string.             *)
VerifyIds == {<<>>, <<"0">>, <<"f", "f", "f">>, <<"n", "o", "n", "e">>}

V_Verify(id) ==
    /\ pc = "idle"
    /\ calls < MaxCalls
    /\ calls' = calls + 1
    /\ LET r == VerifyBackup(files, id)
       IN  ret' = [NoRet EXCEPT !.op = "verify", !.status = r.status,
                                !.err = r.err, !.id = id, !.valid = r.v]
    /\ UNCHANGED <<nonBackup, config, files, dirs, subvols, tmp, now, nextUuid, issued,
                   pc, cur, noFault>>

-----------------------------------------------------------------------------
(* delete_backup (src/src/backup/mod.rs:293-313).                          *)
DeleteBackup(id) ==
    /\ pc = "idle"
    /\ calls < MaxCalls
    /\ calls' = calls + 1
    /\ pc' = "d_get"
    /\ cur' = [NoCur EXCEPT !.op = "delete", !.id = id]
    /\ UNCHANGED <<nonBackup, config, files, dirs, subvols, tmp, now, nextUuid, issued, ret, noFault>>

\* line 295: get_backup(backup_id)?
D_Get(io) ==
    /\ pc = "d_get"
    /\ noFault' = (noFault /\ io)
    /\ LET r == GetBackup(files, cur.id)
       IN  IF ~io THEN Return("Err", "Io")
           ELSE IF r.status # "Ok" THEN Return("Err", r.err)
           ELSE /\ cur' = [cur EXCEPT !.backup = r.v]
                /\ pc' = "d_blob"
                /\ ret' = ret
    /\ UNCHANGED <<nonBackup, config, files, dirs, subvols, tmp, now, nextUuid, issued, calls>>

\* lines 298-299: storage.delete(blob path)?
D_Blob(io) ==
    /\ pc = "d_blob"
    /\ noFault' = (noFault /\ io)
    /\ IF io
       THEN /\ files' = DeleteObject(files, BlobPath(cur.id))
            /\ pc' = "d_meta"
            /\ UNCHANGED <<cur, ret>>
       ELSE files' = files /\ Return("Err", "Io")
    /\ UNCHANGED <<nonBackup, config, dirs, subvols, tmp, now, nextUuid, issued, calls>>

\* lines 302-303: storage.delete(metadata path)?
D_Meta(io) ==
    /\ pc = "d_meta"
    /\ noFault' = (noFault /\ io)
    /\ IF io
       THEN /\ files' = DeleteObject(files, MetadataPath(cur.id))
            /\ pc' = "d_snap"
            /\ UNCHANGED <<cur, ret>>
       ELSE files' = files /\ Return("Err", "Io")
    /\ UNCHANGED <<nonBackup, config, dirs, subvols, tmp, now, nextUuid, issued, calls>>

\* lines 306-312: best-effort delete of the snapshot, then Ok(())
D_Snap(io) ==
    /\ pc = "d_snap"
    /\ LET p == cur.backup.snapshot_path
           there == p # NoPath /\ p \in DOMAIN subvols
       IN  /\ noFault' = (noFault /\ (io \/ ~there))
           /\ subvols' = IF there /\ io THEN MapDel(subvols, p) ELSE subvols
    /\ Return("Ok", "")
    /\ UNCHANGED <<nonBackup, config, files, dirs, tmp, now, nextUuid, issued, calls>>

-----------------------------------------------------------------------------
(* restore_backup (src/src/backup/mod.rs:224-253).                         *)
RestoreBackup(id, target) ==
    /\ pc = "idle"
    /\ calls < MaxCalls
    /\ calls' = calls + 1
    /\ pc' = "r_get"
    /\ cur' = [NoCur EXCEPT !.op = "restore", !.id = id, !.target = target,
                            !.fresh = (target \notin DOMAIN subvols)]
    /\ UNCHANGED <<nonBackup, config, files, dirs, subvols, tmp, now, nextUuid, issued, ret, noFault>>

\* lines 230-236: get_backup(backup_id)?, then the target path
R_Get(io) ==
    /\ pc = "r_get"
    /\ noFault' = (noFault /\ io)
    /\ LET r == GetBackup(files, cur.id)
       IN  IF ~io THEN Return("Err", "Io")
           ELSE IF r.status # "Ok" THEN Return("Err", r.err)
           ELSE /\ cur' = [cur EXCEPT !.backup = r.v,
                                      !.target = IF cur.target = NoPath
                                                 THEN r.v.subvolume_path
                                                 ELSE cur.target]
                /\ pc' = "r_download"
                /\ ret' = ret
    /\ UNCHANGED <<nonBackup, config, files, dirs, subvols, tmp, now, nextUuid, issued, calls>>

\* lines 239-244: download_file(blob path, temp_file)?
R_Download(out) ==
    /\ pc = "r_download"
    /\ LET f == [pre |-> "restore-", id |-> cur.id]
           r == LocalGet(files, BlobPath(cur.id))
       IN  /\ noFault' = (noFault /\ out = "ok")
           /\ IF r.status # "Ok"
              THEN tmp' = tmp /\ Return("Err", r.err)
              ELSE IF out = "ok"
              THEN /\ tmp' = MapPut(tmp, f, r.v)
                   /\ cur' = [cur EXCEPT !.tmpf = f]
                   /\ pc' = "r_receive"
                   /\ ret' = ret
              ELSE IF out = "partial"
              THEN tmp' = MapPut(tmp, f, Truncated(r.v.v)) /\ Return("Err", "Io")
              ELSE tmp' = tmp /\ Return("Err", "Io")
    /\ UNCHANGED <<nonBackup, config, files, dirs, subvols, now, nextUuid, issued, calls>>

\* line 247: Subvolume::receive(&temp_file, &target_path)?  The command
\* receives into target_path's parent; Subvolume::from_path(target_path)
\* then decides the result
R_Receive(io) ==
    /\ pc = "r_receive"
    /\ LET content == tmp[cur.tmpf]
           got == ReceivedPath(content.v, cur.target)
           cmdOk == io /\ content.ok /\ got \notin DOMAIN subvols
           after == IF cmdOk THEN MapPut(subvols, got, content.v.data) ELSE subvols
       IN  /\ noFault' = (noFault /\ io)
           /\ subvols' = after
           /\ IF ~cmdOk THEN Return("Err", "CommandFailed")
              ELSE IF cur.target \notin DOMAIN after
              THEN Return("Err", "NotASubvolume")
              ELSE pc' = "r_cleanup" /\ UNCHANGED <<cur, ret>>
    /\ UNCHANGED <<nonBackup, config, files, dirs, tmp, now, nextUuid, issued, calls>>

\* lines 250-252: remove_file(temp_file).await.ok(); Ok(())
R_Cleanup(removed) ==
    /\ pc = "r_cleanup"
    /\ noFault' = (noFault /\ removed)
    /\ tmp' = IF removed THEN MapDel(tmp, cur.tmpf) ELSE tmp
    /\ Return("Ok", "")
    /\ UNCHANGED <<nonBackup, config, files, dirs, subvols, now, nextUuid, issued, calls>>

-----------------------------------------------------------------------------
(* The environment of the manager.                                         *)

\* the process stops between two awaits; disk and storage stay as they are
Crash ==
    /\ pc # "idle"
    /\ pc' = "idle"
    /\ cur' = NoCur
    /\ ret' = [NoRet EXCEPT !.op = cur.op, !.status = "Crash", !.id = cur.id]
    /\ noFault' = FALSE
    /\ UNCHANGED <<nonBackup, config, files, dirs, subvols, tmp, now, nextUuid, issued, calls>>

\* a second passes between two calls
Tick ==
    /\ pc = "idle"
    /\ calls < MaxCalls
    /\ now < MaxTime
    /\ now' = now + 1
    /\ UNCHANGED <<nonBackup, config, files, dirs, subvols, tmp, nextUuid, issued, calls, pc,
                   cur, ret, noFault>>

\* the user overwrites the file in the subvolume between two calls; the
\* content is named by its version
WriteSubvolume ==
    /\ pc = "idle"
    /\ calls < MaxCalls
    /\ subvols[SubvolumePath] < MaxContent
    /\ subvols' = [subvols EXCEPT ![SubvolumePath] = @ + 1]
    /\ UNCHANGED <<nonBackup, config, files, dirs, tmp, now, nextUuid, issued, calls, pc, cur,
                   ret, noFault>>

IoOutcomes == {"ok", "fail", "partial"}
SendOutcomes == {"ok", "from_path", "send"}

BackupNext ==
    \/ \E inc \in BOOLEAN, parent \in {NoId} \cup Advertised(files, issued) :
          CreateBackup(inc, parent)
    \/ \E io \in BOOLEAN : C_Snapshot(io)
    \/ \E out \in SendOutcomes : C_Send(out)
    \/ \E out \in IoOutcomes : C_Upload(out)
    \/ \E io \in BOOLEAN : C_Size(io)
    \/ \E out \in IoOutcomes : C_Save(out)
    \/ \E removed \in BOOLEAN : C_Cleanup(removed)
    \/ \E id \in issued : DeleteBackup(id)
    \/ \E io \in BOOLEAN : D_Get(io)
    \/ \E io \in BOOLEAN : D_Blob(io)
    \/ \E io \in BOOLEAN : D_Meta(io)
    \/ \E io \in BOOLEAN : D_Snap(io)
    \/ \E id \in issued, target \in {NoPath} \cup RestoreTargets :
          RestoreBackup(id, target)
    \/ \E io \in BOOLEAN : R_Get(io)
    \/ \E out \in IoOutcomes : R_Download(out)
    \/ \E io \in BOOLEAN : R_Receive(io)
    \/ \E removed \in BOOLEAN : R_Cleanup(removed)
    \/ \E id \in issued \cup VerifyIds : V_Verify(id)
    \/ Crash
    \/ Tick
    \/ WriteSubvolume

-----------------------------------------------------------------------------
(* The AES-GCM encryption provider (src/src/backup/encryption/mod.rs).     *)
(*                                                                         *)
(* A byte buffer is a sequence of extents.  An extent names a byte string  *)
(* (its source) and a range of it.  The sources are the plaintext p handed *)
(* to encrypt, and the sealed segments encrypt_data returns: the nonce,    *)
(* then the AEAD output for one slice of p (as long as the slice), then    *)
(* the authentication tag.  Two buffers are equal bytes exactly when their *)
(* merged extents are equal.                                               *)
NONCE_SIZE == 12
TagSize == 16
SmallLimit == 1024
ChunkSize == 64 * 1024

Nonces == {"n1", "n2"}

Min(a, b) == IF a <= b THEN a ELSE b

\* the plaintext of length n, as a source
PlainSource(n) == [nonce |-> "plain", poff |-> 0, plen |-> n]
\* the sealed segment for p[poff .. poff+plen) under nonce r, as a source
Sealed(r, poff, plen) == [nonce |-> r, poff |-> poff, plen |-> plen]
SourceLen(src) ==
    IF src.nonce = "plain" THEN src.plen ELSE NONCE_SIZE + src.plen + TagSize

Extent(src, off, len) == [src |-> src, off |-> off, len |-> len]

\* the buffer holding bytes [off, off+len) of the plaintext of length n
PlainBuf(n, off, len) ==
    IF len = 0 THEN <<>> ELSE <<Extent(PlainSource(n), off, len)>>

RECURSIVE BufLen(_)
BufLen(buf) == IF buf = <<>> THEN 0 ELSE buf[1].len + BufLen(Tail(buf))

\* buf[pos..end]
RECURSIVE Slice(_, _, _)
Slice(buf, pos, end) ==
    IF buf = <<>> \/ end <= pos THEN <<>>
    ELSE LET e == buf[1]
             from == Min(pos, e.len)
             to == Min(end, e.len)
             rest == Slice(Tail(buf), pos - from, end - to)
         IN  IF to > from
             THEN <<Extent(e.src, e.off + from, to - from)>> \o rest
             ELSE rest

\* adjacent extents that continue each other are one extent
RECURSIVE Merge(_)
Merge(buf) ==
    IF Len(buf) < 2 THEN buf
    ELSE LET a == buf[1]
             b == buf[2]
         IN  IF a.src = b.src /\ a.off + a.len = b.off
             THEN Merge(<<Extent(a.src, a.off, a.len + b.len)>> \o Tail(Tail(buf)))
             ELSE <<a>> \o Merge(Tail(buf))

\* encrypt_data(data, key) with the nonce OsRng draws: nonce || AEAD(data);
\* data is the slice [off, off+len) of the plaintext
EncryptData(off, len, r) ==
    LET seg == Sealed(r, off, len)
    IN  <<Extent(seg, 0, SourceLen(seg))>>

\* decrypt_data(encrypted, key): too short below NONCE_SIZE bytes; the AEAD
\* accepts exactly a nonce followed by the whole output sealed under it
DecryptData(n, encrypted) ==
    LET m == Merge(encrypted)
    IN  IF BufLen(encrypted) < NONCE_SIZE
        THEN Err("Encrypted data too short", <<>>)
        ELSE IF /\ Len(m) = 1
                /\ m[1].src.nonce # "plain"
                /\ m[1].off = 0
                /\ m[1].len = SourceLen(m[1].src)
        THEN Ok(PlainBuf(n, m[1].src.poff, m[1].src.plen))
        ELSE Err("aead::Error", <<>>)

\* the plaintext lengths tried: empty, one byte, around the small-input
\* limit, around the longest chunk whose segment fits one decrypt stride,
\* whole chunks and one byte more
PlainLens ==
    {0, 1, SmallLimit - TagSize - 1, SmallLimit - TagSize, SmallLimit - 1,
     SmallLimit, SmallLimit + 1, ChunkSize - TagSize, ChunkSize - TagSize + 1,
     ChunkSize - 1}
    \cup {k * ChunkSize : k \in 1..MaxChunks}
    \cup {k * ChunkSize + 1 : k \in 1..(MaxChunks - 1)}

NoResult == [status |-> "", err |-> "", v |-> <<>>]

InitEnc ==
    /\ plain = 0
    /\ cipher = <<>>
    /\ decrypted = NoResult
    /\ epc = "idle"
    /\ epos = 0

\* encrypt(data), lines 121-130: the single call for data.len() < 1024,
\* else the chunk loop starts at pos = 0
Encrypt(n, r) ==
    /\ epc = "idle"
    /\ plain' = n
    /\ decrypted' = NoResult
    /\ epos' = 0
    /\ IF n < SmallLimit
       THEN cipher' = EncryptData(0, n, r) /\ epc' = "encrypted"
       ELSE cipher' = <<>> /\ epc' = "encrypting"
    /\ UNCHANGED nonEnc

\* one iteration of the loop of lines 132-137, or its exit at line 139
E_Chunk(r) ==
    /\ epc = "encrypting"
    /\ IF epos < plain
       THEN LET end == Min(epos + ChunkSize, plain)
            IN  /\ cipher' = cipher \o EncryptData(epos, end - epos, r)
                /\ epos' = end
                /\ epc' = epc
       ELSE /\ epc' = "encrypted"
            /\ epos' = 0
            /\ cipher' = cipher
    /\ UNCHANGED <<nonEnc, plain, decrypted>>

\* decrypt(data) on what encrypt returned, lines 142-151: the single call
\* for data.len() < 1024 + NONCE_SIZE, else the chunk loop starts
Decrypt ==
    /\ epc = "encrypted"
    /\ epos' = 0
    /\ IF BufLen(cipher) < SmallLimit + NONCE_SIZE
       THEN /\ decrypted' = DecryptData(plain, cipher)
            /\ epc' = "done"
       ELSE /\ decrypted' = Ok(<<>>)
            /\ epc' = "decrypting"
    /\ UNCHANGED <<nonEnc, plain, cipher>>

\* one iteration of the loop of lines 153-158 (a failed decrypt_data
\* returns the error), or its exit at line 160
D_Chunk ==
    /\ epc = "decrypting"
    /\ IF epos < BufLen(cipher)
       THEN LET end == Min(epos + ChunkSize + NONCE_SIZE, BufLen(cipher))
                r == DecryptData(plain, Slice(cipher, epos, end))
            IN  IF r.status = "Ok"
                THEN /\ decrypted' = Ok(decrypted.v \o r.v)
                     /\ epos' = end
                     /\ epc' = epc
                ELSE /\ decrypted' = r
                     /\ epos' = epos
                     /\ epc' = "done"
       ELSE /\ epc' = "done"
            /\ UNCHANGED <<decrypted, epos>>
    /\ UNCHANGED <<nonEnc, plain, cipher>>

\* the caller drops the buffers and starts over
E_Reset ==
    /\ epc = "done"
    /\ plain' = 0
    /\ cipher' = <<>>
    /\ decrypted' = NoResult
    /\ epc' = "idle"
    /\ epos' = 0
    /\ UNCHANGED nonEnc

EncNext ==
    \/ \E n \in PlainLens, r \in Nonces : Encrypt(n, r)
    \/ \E r \in Nonces : E_Chunk(r)
    \/ Decrypt
    \/ D_Chunk
    \/ E_Reset

-----------------------------------------------------------------------------
(* SnapshotTree (src/src/snapshot/mod.rs).  A Snapshot is kept with the    *)
(* fields the tree reads: id, parent_id and children_ids.                  *)
TreeIds == {"a", "b", "c"}
NoTreeId == ""

Range(seq) == {seq[i] : i \in 1..Len(seq)}

\* the Snapshot values a caller can hand to add_snapshot: the fields are
\* public, so children_ids need not be empty
SnapshotValues ==
    [id : TreeIds,
     parent_id : TreeIds \cup {NoTreeId},
     children_ids : {<<>>} \cup {<<c>> : c \in TreeIds}]

\* Snapshot::new(name, path, parent)
NewSnapshot(id, parent_id) ==
    [id |-> id, parent_id |-> parent_id, children_ids |-> <<>>]
NoTreeSnapshot == NewSnapshot(NoTreeId, NoTreeId)

TreeOk(snaps, rts, v) ==
    [status |-> "Ok", err |-> "", errId |-> NoTreeId,
     snapshots |-> snaps, roots |-> rts, v |-> v]
TreeErr(kind, id, snaps, rts) ==
    [status |-> "Err", err |-> kind, errId |-> id,
     snapshots |-> snaps, roots |-> rts, v |-> NoTreeSnapshot]

\* add_snapshot mutated: a snapshot whose parent is missing is taken as a root
AddSnapshot_OrphanAsRoot(snaps, rts, snapshot) ==
    IF snapshot.id \in DOMAIN snaps
    THEN TreeErr("InvalidRelationship", NoTreeId, snaps, rts)
    ELSE IF snapshot.parent_id # NoTreeId /\ snapshot.parent_id \in DOMAIN snaps
    THEN TreeOk(MapPut([snaps EXCEPT ![snapshot.parent_id].children_ids =
                            Append(@, snapshot.id)], snapshot.id, snapshot),
                rts \ {snapshot.id}, snapshot)
    ELSE TreeOk(MapPut(snaps, snapshot.id, snapshot), rts \cup {snapshot.id},
                snapshot)

\* add_snapshot mutated: the duplicate check is left out, a snapshot whose id
\* is in the tree replaces the one there
AddSnapshot_Overwrite(snaps, rts, snapshot) ==
    IF snapshot.parent_id # NoTreeId
    THEN IF snapshot.parent_id \in DOMAIN snaps
         THEN TreeOk(MapPut([snaps EXCEPT ![snapshot.parent_id].children_ids =
                                 Append(@, snapshot.id)], snapshot.id, snapshot),
                     rts \ {snapshot.id}, snapshot)
         ELSE TreeErr("SnapshotNotFound", snapshot.parent_id, snaps, rts)
    ELSE TreeOk(MapPut(snaps, snapshot.id, snapshot), rts \cup {snapshot.id},
                snapshot)

\* add_snapshot: the duplicate check, then the parent's children list or
\* the roots set, then the insert
AddSnapshot(snaps, rts, snapshot) ==
    IF snapshot.id \in DOMAIN snaps
    THEN TreeErr("InvalidRelationship", NoTreeId, snaps, rts)
    ELSE IF snapshot.parent_id # NoTreeId
    THEN IF snapshot.parent_id \in DOMAIN snaps
         THEN TreeOk(MapPut([snaps EXCEPT ![snapshot.parent_id].children_ids =
                                 Append(@, snapshot.id)], snapshot.id, snapshot),
                     rts \ {snapshot.id}, snapshot)
         ELSE TreeErr("SnapshotNotFound", snapshot.parent_id, snaps, rts)
    ELSE TreeOk(MapPut(snaps, snapshot.id, snapshot), rts \cup {snapshot.id},
                snapshot)

\* get_snapshot
GetSnapshot(snaps, id) ==
    IF id \in DOMAIN snaps THEN snaps[id] ELSE NoTreeSnapshot

\* get_roots
GetRoots(snaps, rts) == {snaps[id] : id \in rts \cap DOMAIN snaps}

IsInTree(snaps, id) == id \in DOMAIN snaps

\* get_children: the parent's children_ids that are in the map, in order
GetChildren(snaps, parent_id) ==
    IF parent_id \in DOMAIN snaps
    THEN LET InTree(id) == IsInTree(snaps, id)
         IN  [i \in 1..Len(SelectSeq(snaps[parent_id].children_ids, InTree)) |->
                snaps[SelectSeq(snaps[parent_id].children_ids, InTree)[i]]]
    ELSE <<>>

\* get_parent
GetParent(snaps, child_id) ==
    IF child_id \in DOMAIN snaps /\ snaps[child_id].parent_id \in DOMAIN snaps
    THEN snaps[snaps[child_id].parent_id]
    ELSE NoTreeSnapshot

\* get_path_to_snapshot: walk the parent ids up to a root, a missing id or a
\* revisited id (None), then reverse
RECURSIVE WalkUp(_, _, _, _)
WalkUp(snaps, current_id, visited, path) ==
    IF current_id \notin DOMAIN snaps THEN Ok(path)
    ELSE IF current_id \in visited THEN Err("None", <<>>)
    ELSE IF snaps[current_id].parent_id = NoTreeId
    THEN Ok(<<current_id>> \o path)
    ELSE WalkUp(snaps, snaps[current_id].parent_id, visited \cup {current_id},
                <<current_id>> \o path)

\* get_path_to_snapshot mutated: path.reverse() is left out
GetPathToSnapshot_NoReverse(snaps, id) ==
    LET r == WalkUp(snaps, id, {}, <<>>)
    IN  [r EXCEPT !.v = [i \in 1..Len(r.v) |-> r.v[Len(r.v) - i + 1]]]

GetPathToSnapshot(snaps, id) == WalkUp(snaps, id, {}, <<>>)

\* remove_snapshot mutated: the children check is left out
RemoveSnapshot_NoChildCheck(snaps, rts, id) ==
    IF id \notin DOMAIN snaps
    THEN TreeErr("SnapshotNotFound", id, snaps, rts)
    ELSE LET pid == snaps[id].parent_id
             NotId(c) == c # id
             unlinked == IF pid # NoTreeId /\ pid \in DOMAIN snaps
                         THEN [snaps EXCEPT ![pid].children_ids =
                                  SelectSeq(@, NotId)]
                         ELSE snaps
         IN  TreeOk(MapDel(unlinked, id),
                    IF pid = NoTreeId THEN rts \ {id} ELSE rts, snaps[id])

\* remove_snapshot mutated: the roots set is left as it is
RemoveSnapshot_RootKept(snaps, rts, id) ==
    IF id \notin DOMAIN snaps
    THEN TreeErr("SnapshotNotFound", id, snaps, rts)
    ELSE IF snaps[id].children_ids # <<>>
    THEN TreeErr("InvalidRelationship", NoTreeId, snaps, rts)
    ELSE LET pid == snaps[id].parent_id
             NotId(c) == c # id
             unlinked == IF pid # NoTreeId /\ pid \in DOMAIN snaps
                         THEN [snaps EXCEPT ![pid].children_ids =
                                  SelectSeq(@, NotId)]
                         ELSE snaps
         IN  TreeOk(MapDel(unlinked, id), rts, snaps[id])

\* remove_snapshot: unknown id, then the children check, then the parent's
\* children list (retain) or the roots set, then the removal
RemoveSnapshot(snaps, rts, id) ==
    IF id \notin DOMAIN snaps
    THEN TreeErr("SnapshotNotFound", id, snaps, rts)
    ELSE IF snaps[id].children_ids # <<>>
    THEN TreeErr("InvalidRelationship", NoTreeId, snaps, rts)
    ELSE LET pid == snaps[id].parent_id
             NotId(c) == c # id
             unlinked == IF pid # NoTreeId /\ pid \in DOMAIN snaps
                         THEN [snaps EXCEPT ![pid].children_ids =
                                  SelectSeq(@, NotId)]
                         ELSE snaps
         IN  TreeOk(MapDel(unlinked, id),
                    IF pid = NoTreeId THEN rts \ {id} ELSE rts, snaps[id])

\* create_snapshot(source_id, ..): the source must be in the tree, the
\* btrfs call must succeed, then add_snapshot(Snapshot::new(.., Some(source)))
\* with the id Uuid::new_v4() drew
CreateTreeSnapshot(snaps, rts, source_id, new_id, ffiOk) ==
    IF source_id \notin DOMAIN snaps
    THEN TreeErr("SnapshotNotFound", source_id, snaps, rts)
    ELSE IF ~ffiOk THEN TreeErr("BtrfsError", NoTreeId, snaps, rts)
    ELSE AddSnapshot(snaps, rts, NewSnapshot(new_id, source_id))

\* ids no snapshot, children list or parent field of the tree mentions: the
\* ones a fresh uuid can be
FreshTreeIds(snaps) ==
    {id \in TreeIds :
        /\ id \notin DOMAIN snaps
        /\ \A k \in DOMAIN snaps :
              id # snaps[k].parent_id /\ id \notin Range(snaps[k].children_ids)}

NoTreeRet ==
    [op |-> "", id |-> NoTreeId, arg |-> NoTreeSnapshot, status |-> "",
     err |-> "", errId |-> NoTreeId]
TreeRet(op, id, arg, r) ==
    [op |-> op, id |-> id, arg |-> arg, status |-> r.status, err |-> r.err,
     errId |-> r.errId]

InitTree ==
    /\ snapshots = EmptyMap
    /\ roots = {}
    /\ tret = NoTreeRet
    /\ tcount = 0

T_Add(snapshot) ==
    /\ tcount < MaxTreeCalls
    /\ tcount' = tcount + 1
    /\ LET r == AddSnapshot(snapshots, roots, snapshot)
       IN  /\ snapshots' = r.snapshots
           /\ roots' = r.roots
           /\ tret' = TreeRet("add", snapshot.id, snapshot, r)
    /\ UNCHANGED nonTree

T_Remove(id) ==
    /\ tcount < MaxTreeCalls
    /\ tcount' = tcount + 1
    /\ LET r == RemoveSnapshot(snapshots, roots, id)
       IN  /\ snapshots' = r.snapshots
           /\ roots' = r.roots
           /\ tret' = TreeRet("remove", id, GetSnapshot(snapshots, id), r)
    /\ UNCHANGED nonTree

T_Create(source_id, new_id, ffiOk) ==
    /\ tcount < MaxTreeCalls
    /\ tcount' = tcount + 1
    /\ LET r == CreateTreeSnapshot(snapshots, roots, source_id, new_id, ffiOk)
       IN  /\ snapshots' = r.snapshots
           /\ roots' = r.roots
           /\ tret' = TreeRet("create", source_id, r.v, r)
    /\ UNCHANGED nonTree

TreeNext ==
    \/ \E snapshot \in SnapshotValues : T_Add(snapshot)
    \/ \E id \in TreeIds : T_Remove(id)
    \/ \E source_id \in TreeIds, new_id \in FreshTreeIds(snapshots),
          ffiOk \in BOOLEAN : T_Create(source_id, new_id, ffiOk)

-----------------------------------------------------------------------------
(* ApiKeyManager (src/src/auth/mod.rs): a HashMap of ApiKey behind a       *)
(* std::sync::RwLock, called from several threads.                         *)
Threads == {"t1", "t2"}
AuthKeys == {"k1", "k2"}
Services == {"backup", "llm"}

\* The ApiKey values handed to add_key.  expires_at: Option<i64> is <<>> for
\* None and <<t>> for Some(t).
ApiKeys == [key : AuthKeys, service : Services, expires_at : {<<>>, <<0>>}]
NoApiKey == [key |-> "", service |-> "", expires_at |-> <<>>]

\* RwLock: write() waits until nobody holds the lock, read() until no writer
\* holds it

\* write() mutated: a writer does not wait for the readers
CanWrite_IgnoresReaders(l) == l.writers = {}

CanWrite(l) == l.writers = {} /\ l.readers = {}
CanRead(l) == l.writers = {}

\* add_key: keys.insert(key.key.clone(), key)
AddKey(ks, k) == MapPut(ks, k.key, k)
\* remove_key: keys.remove(key)
RemoveKey(ks, key) == MapDel(ks, key)

\* keys.get(key)
GetKey(ks, key) == IF key \in DOMAIN ks THEN ks[key] ELSE NoApiKey

\* validate_key mutated: the service of the key is not compared
CheckKey_AnyService(found, api_key, service, t) ==
    IF found
    THEN IF api_key.expires_at # <<>> /\ t > api_key.expires_at[1]
         THEN "Other: API key has expired"
         ELSE "Ok"
    ELSE "InvalidApiKey"

\* validate_key after keys.get(key): the service check, then the expiry
\* check against the clock
CheckKey(found, api_key, service, t) ==
    IF found
    THEN IF api_key.service # service
         THEN "InvalidApiKey"
         ELSE IF api_key.expires_at # <<>> /\ t > api_key.expires_at[1]
         THEN "Other: API key has expired"
         ELSE "Ok"
    ELSE "InvalidApiKey"

NoAuthCall ==
    [op |-> "", key |-> "", service |-> "", api_key |-> NoApiKey,
     found |-> FALSE, entry |-> NoApiKey, at |-> 0, result |-> ""]
AuthCalls ==
    {[NoAuthCall EXCEPT !.op = "add", !.key = k.key, !.api_key = k] : k \in ApiKeys}
    \cup {[NoAuthCall EXCEPT !.op = "remove", !.key = k] : k \in AuthKeys}
    \cup {[NoAuthCall EXCEPT !.op = "validate", !.key = k, !.service = sv] :
            k \in AuthKeys, sv \in Services}

InitAuth ==
    /\ keys = EmptyMap
    /\ lock = [writers |-> {}, readers |-> {}]
    /\ apc = [t \in Threads |-> "idle"]
    /\ areq = [t \in Threads |-> NoAuthCall]
    /\ ares = [op |-> "", result |-> ""]
    /\ anow = 0
    /\ acount = 0

\* a thread calls add_key, remove_key or validate_key
A_Call(t, call) ==
    /\ apc[t] = "idle"
    /\ acount < MaxAuthCalls
    /\ acount' = acount + 1
    /\ areq' = [areq EXCEPT ![t] = call]
    /\ apc' = [apc EXCEPT ![t] = "lock"]
    /\ UNCHANGED <<nonAuth, keys, lock, ares, anow>>

\* self.keys.write() (lines 62, 69) or self.keys.read() (line 76)
A_Lock(t) ==
    /\ apc[t] = "lock"
    /\ IF areq[t].op = "validate"
       THEN /\ CanRead(lock)
            /\ lock' = [lock EXCEPT !.readers = @ \cup {t}]
            /\ apc' = [apc EXCEPT ![t] = "get"]
       ELSE /\ CanWrite(lock)
            /\ lock' = [lock EXCEPT !.writers = @ \cup {t}]
            /\ apc' = [apc EXCEPT ![t] = "write"]
    /\ UNCHANGED <<nonAuth, keys, areq, ares, anow, acount>>

\* keys.insert (line 63) or keys.remove (line 70)
A_Write(t) ==
    /\ apc[t] = "write"
    /\ keys' = IF areq[t].op = "add"
               THEN AddKey(keys, areq[t].api_key)
               ELSE RemoveKey(keys, areq[t].key)
    /\ areq' = [areq EXCEPT ![t].result = "Ok"]
    /\ apc' = [apc EXCEPT ![t] = "unlock"]
    /\ UNCHANGED <<nonAuth, lock, ares, anow, acount>>

\* keys.get(key) (line 78)
A_Get(t) ==
    /\ apc[t] = "get"
    /\ areq' = [areq EXCEPT ![t].found = areq[t].key \in DOMAIN keys,
                            ![t].entry = GetKey(keys, areq[t].key)]
    /\ apc' = [apc EXCEPT ![t] = "check"]
    /\ UNCHANGED <<nonAuth, keys, lock, ares, anow, acount>>

\* the service and expiry checks (lines 80-99)
A_Check(t) ==
    /\ apc[t] = "check"
    /\ areq' = [areq EXCEPT
                  ![t].at = anow,
                  ![t].result = CheckKey(areq[t].found, areq[t].entry,
                                         areq[t].service, anow)]
    /\ apc' = [apc EXCEPT ![t] = "unlock"]
    /\ UNCHANGED <<nonAuth, keys, lock, ares, anow, acount>>

\* the guard is dropped when the call returns
A_Unlock(t) ==
    /\ apc[t] = "unlock"
    /\ lock' = [writers |-> lock.writers \ {t}, readers |-> lock.readers \ {t}]
    /\ ares' = [op |-> areq[t].op, result |-> areq[t].result]
    /\ areq' = [areq EXCEPT ![t] = NoAuthCall]
    /\ apc' = [apc EXCEPT ![t] = "idle"]
    /\ UNCHANGED <<nonAuth, keys, anow, acount>>

\* a second passes
A_Tick ==
    /\ anow < MaxAuthTime
    /\ anow' = anow + 1
    /\ UNCHANGED <<nonAuth, keys, lock, apc, areq, ares, acount>>

AuthNext ==
    \/ \E t \in Threads, call \in AuthCalls : A_Call(t, call)
    \/ \E t \in Threads : A_Lock(t)
    \/ \E t \in Threads : A_Write(t)
    \/ \E t \in Threads : A_Get(t)
    \/ \E t \in Threads : A_Check(t)
    \/ \E t \in Threads : A_Unlock(t)
    \/ A_Tick

-----------------------------------------------------------------------------
(* Concurrent requests on one SnapshotManager (src/src/backup/snapshot.rs).*)
(* The manager holds snapshot_dir, read_only and default_metadata and no   *)
(* lock; its index of snapshots is the snapshot directory itself.  Each    *)
(* request runs create_snapshot or create_incremental_snapshot followed by *)
(* Snapshot::send (as create_backup does), find_snapshot or                *)
(* delete_snapshot, one file-system access or btrfs command per step.      *)
Requests == {"r1", "r2"}

NoRequest ==
    [op |-> "", id |-> NoId, parent |-> NoSnapshot, source |-> NoPath,
     dest |-> NoPath, made |-> NoSnapshot, stream |-> NoStream, listed |-> {},
     found |-> NoSnapshot, status |-> "", err |-> ""]

InitRequests ==
    /\ qdisk = MapPut(EmptyMap, SubvolumePath, 1)
    /\ qpc = [r \in Requests |-> "idle"]
    /\ qloc = [r \in Requests |-> NoRequest]
    /\ qnow = 0
    /\ quuid = 0
    /\ qcount = 0

QReturn(r, status, err) ==
    /\ qloc' = [qloc EXCEPT ![r].status = status, ![r].err = err]
    /\ qpc' = [qpc EXCEPT ![r] = "idle"]

\* a request enters the manager; parent is the Snapshot handed to
\* create_incremental_snapshot, NoSnapshot for the other calls
Q_Call(r, op, id, parent) ==
    /\ qpc[r] = "idle"
    /\ qcount < MaxRequests
    /\ qcount' = qcount + 1
    /\ (op = "incremental") = (parent # NoSnapshot)
    /\ qloc' = [qloc EXCEPT ![r] = [NoRequest EXCEPT !.op = op, !.id = id,
                                                    !.parent = parent]]
    /\ qpc' = [qpc EXCEPT ![r] = IF op \in {"create", "incremental"}
                                 THEN "c_name" ELSE "l_list"]
    /\ UNCHANGED <<nonRequests, qdisk, qnow, quuid>>

\* Snapshot::create lines 62-72: the destination from the clock
Q_Name(r) ==
    /\ qpc[r] = "c_name"
    /\ qloc' = [qloc EXCEPT ![r].dest =
                   DiskPath(SnapshotDir, SnapshotName(SubvolumePath.name.base, qnow))]
    /\ qpc' = [qpc EXCEPT ![r] = "c_check"]
    /\ UNCHANGED <<nonRequests, qdisk, qnow, quuid, qcount>>

\* Snapshot::create lines 75-87: the source is the parent snapshot's path
\* when a parent is given, else the subvolume; Subvolume::create_snapshot
\* lines 84-91: is_subvolume(source), dest.exists()
Q_Check(r) ==
    /\ qpc[r] = "c_check"
    /\ LET source == IF qloc[r].parent # NoSnapshot THEN qloc[r].parent.path
                     ELSE SubvolumePath
           res == CreateSnapshot(qdisk, source, qloc[r].dest, TRUE)
       IN  IF res.status = "Err"
           THEN QReturn(r, "Err", res.err)
           ELSE /\ qpc' = [qpc EXCEPT ![r] = "c_command"]
                /\ qloc' = [qloc EXCEPT ![r].source = source]
    /\ UNCHANGED <<nonRequests, qdisk, qnow, quuid, qcount>>

\* The btrfs command of the request.  "btrfs subvolume snapshot -r" (lines
\* 101-121) fails when the destination has appeared since the check: it is a
\* read-only snapshot and nothing can be created inside it.
\* Snapshot::delete (lines 105-110) deletes the path when it exists.
Q_Command(r) ==
    /\ qpc[r] \in {"c_command", "d_delete"}
    /\ IF qloc[r].op \in {"create", "incremental"}
       THEN IF qloc[r].dest \in DOMAIN qdisk \/ qloc[r].source \notin DOMAIN qdisk
            THEN /\ QReturn(r, "Err", "CommandFailed")
                 /\ UNCHANGED <<qdisk, quuid>>
            ELSE /\ qpc' = [qpc EXCEPT ![r] = "c_send"]
                 /\ qloc' = [qloc EXCEPT ![r].made =
                                [id |-> SnapId(quuid), path |-> qloc[r].dest,
                                 parent_id |-> qloc[r].parent.id]]
                 /\ quuid' = quuid + 1
                 /\ qdisk' = MapPut(qdisk, qloc[r].dest, qdisk[qloc[r].source])
       ELSE /\ QReturn(r, "Ok", "")
            /\ qdisk' = MapDel(qdisk, qloc[r].found.path)
            /\ quuid' = quuid
    /\ UNCHANGED <<nonRequests, qnow, qcount>>

\* Snapshot::send (lines 113-117): Subvolume::from_path(&self.path), then
\* Subvolume::send
Q_Send(r) ==
    /\ qpc[r] = "c_send"
    /\ IF qloc[r].dest \in DOMAIN qdisk
       THEN /\ qloc' = [qloc EXCEPT ![r].stream = SendStream(qdisk, qloc[r].dest),
                                    ![r].status = "Ok"]
            /\ qpc' = [qpc EXCEPT ![r] = "idle"]
       ELSE QReturn(r, "Err", "NotASubvolume")
    /\ UNCHANGED <<nonRequests, qdisk, qnow, quuid, qcount>>

\* list_snapshots line 229: btrfs subvolume list on the snapshot directory
Q_List(r) ==
    /\ qpc[r] = "l_list"
    /\ qloc' = [qloc EXCEPT ![r].listed = ListSubvolumes(qdisk, SnapshotDir)]
    /\ qpc' = [qpc EXCEPT ![r] = "l_load"]
    /\ UNCHANGED <<nonRequests, qdisk, qnow, quuid, qcount>>

\* list_snapshots lines 231-261 and find(|s| s.id == id): one Snapshot with a
\* fresh id per listed subvolume; find_snapshot returns the match and
\* delete_snapshot goes on to delete it or reports that there is none
Q_Load(r) ==
    /\ qpc[r] = "l_load"
    /\ LET listed == [p \in qloc[r].listed |-> 0]
           found == FindSnapshot(listed, quuid, qloc[r].id)
       IN  /\ quuid' = quuid + Cardinality(qloc[r].listed)
           /\ IF qloc[r].op = "delete" /\ found # NoSnapshot
              THEN /\ qloc' = [qloc EXCEPT ![r].found = found]
                   /\ qpc' = [qpc EXCEPT ![r] = "d_delete"]
              ELSE /\ qloc' = [qloc EXCEPT
                                 ![r].found = found,
                                 ![r].status = IF qloc[r].op = "delete" THEN "Err" ELSE "Ok",
                                 ![r].err = IF qloc[r].op = "delete"
                                            THEN "Snapshot not found" ELSE ""]
                   /\ qpc' = [qpc EXCEPT ![r] = "idle"]
    /\ UNCHANGED <<nonRequests, qdisk, qnow, qcount>>

\* a second passes
Q_Tick ==
    /\ qnow < MaxTime
    /\ qnow' = qnow + 1
    /\ UNCHANGED <<nonRequests, qdisk, qpc, qloc, quuid, qcount>>

RequestsNext ==
    \/ \E r \in Requests, op \in {"create", "incremental", "find", "delete"},
          k \in 0..1, parent \in {qloc[c].made : c \in Requests} :
             Q_Call(r, op, SnapId(k), parent)
    \/ \E r \in Requests : Q_Name(r)
    \/ \E r \in Requests : Q_Check(r)
    \/ \E r \in Requests : Q_Command(r)
    \/ \E r \in Requests : Q_Send(r)
    \/ \E r \in Requests : Q_List(r)
    \/ \E r \in Requests : Q_Load(r)
    \/ Q_Tick

-----------------------------------------------------------------------------
(* LocalStorage path resolution (src/src/backup/storage/local.rs): put,    *)
(* get, delete and exists applied to logical paths with and without a root *)
(* component and parent-directory segments.                                *)
RECURSIVE SeqsUpTo(_, _)
SeqsUpTo(S, n) ==
    IF n = 0 THEN {<<>>}
    ELSE LET shorter == SeqsUpTo(S, n - 1)
         IN  shorter \cup {Append(q, c) : q \in shorter, c \in S}

\* the logical paths handed to the backend: Path::components() yields a
\* root component only in first place
LogicalPaths ==
    LET rel == SeqsUpTo({ParentDir, <<"a">>, <<"b">>}, MaxPathLen) \ {<<>>}
    IN  rel \cup {<<RootDir>> \o q : q \in rel}

InitPath ==
    /\ pfiles = EmptyMap
    /\ pret = [op |-> "", path |-> <<>>, full |-> <<>>, result |-> Ok(Whole(0))]
    /\ pcount = 0

PathCall(op, path, result) ==
    /\ pcount < MaxPathCalls
    /\ pcount' = pcount + 1
    /\ pret' = [op |-> op, path |-> path, full |-> ResolvePath(path), result |-> result]

P_Put(path, data) ==
    /\ PathCall("put", path, Ok(data))
    /\ pfiles' = LocalPut(pfiles, path, data)
    /\ UNCHANGED nonPath

P_Get(path) ==
    /\ PathCall("get", path, LocalGet(pfiles, path))
    /\ UNCHANGED <<nonPath, pfiles>>

P_Delete(path) ==
    /\ PathCall("delete", path, Ok(Whole(0)))
    /\ pfiles' = LocalDelete(pfiles, path)
    /\ UNCHANGED nonPath

P_Exists(path) ==
    /\ PathCall("exists", path,
                IF LocalExists(pfiles, path) THEN Ok(Whole(1)) ELSE Ok(Whole(0)))
    /\ UNCHANGED <<nonPath, pfiles>>

PathNext ==
    \/ \E path \in LogicalPaths, c \in 1..MaxContent : P_Put(path, Whole(c))
    \/ \E path \in LogicalPaths : P_Get(path)
    \/ \E path \in LogicalPaths : P_Delete(path)
    \/ \E path \in LogicalPaths : P_Exists(path)

-----------------------------------------------------------------------------
(* The specifications.                                                     *)
Init == InitBackup /\ InitEnc /\ InitTree /\ InitAuth /\ InitRequests /\ InitPath

Next == BackupNext
Spec == Init /\ [][Next]_vars

\* the backup manager built with a configuration that enables encryption
InitEncrypted ==
    /\ InitManager([encryption |-> [enabled |-> TRUE]])
    /\ InitEnc /\ InitTree /\ InitAuth /\ InitRequests /\ InitPath

SpecEncrypted == InitEncrypted /\ [][Next]_vars

SpecEnc == Init /\ [][EncNext]_vars

SpecTree == Init /\ [][TreeNext]_vars

SpecAuth == Init /\ [][AuthNext]_vars

SpecRequests == Init /\ [][RequestsNext]_vars

SpecPath == Init /\ [][PathNext]_vars

-----------------------------------------------------------------------------
(* Properties of the backup manager, checked under Spec.                   *)

MetadataExists(f, id) == LocalExists(f, MetadataPath(id))
BlobExists(f, id) == LocalExists(f, BlobPath(id))
BlobComplete(f, id) == BlobExists(f, id) /\ LocalGet(f, BlobPath(id)).v.ok

\* C1: in create_backup the blob upload comes before the metadata write: in
\* every state of a create_backup run, metadata for the run's id exists only
\* if the blob for that id exists, and a step that writes the metadata object
\* of an id finds the complete blob of that id already in storage; a run that
\* fails or stops between the two steps leaves a blob without metadata, never
\* metadata without blob (also when the run has just returned or stopped).
C1_BlobBeforeMetadata ==
    /\ [](cur.op = "create" /\ cur.id # NoId /\ MetadataExists(files, cur.id)
            => BlobExists(files, cur.id))
    /\ [](pc = "idle" /\ ret.op = "create" /\ ret.id # NoId
              /\ MetadataExists(files, ret.id)
            => BlobExists(files, ret.id))
    /\ [][\A id \in issued' :
            MetadataExists(files', id) /\ ~MetadataExists(files, id)
                => BlobComplete(files, id) /\ BlobComplete(files', id)]_vars

\* C1 witness: create_backup has written the metadata of its id
C1_Witness ==
    /\ pc = "c_cleanup"
    /\ MetadataExists(files, cur.id)
    /\ BlobExists(files, cur.id)

\* C2: whatever creates, deletes, failures and stops came before, every
\* backup that get_backup or list_backups can return has its blob in storage.
C2_AdvertisedHasBlob ==
    /\ \A id \in Advertised(files, issued) : BlobExists(files, id)
    /\ LET l == ListBackups(files, dirs)
       IN  l.status = "Ok" => \A i \in 1..Len(l.v) : BlobExists(files, l.v[i].id)

IsConsistent(b) == b.is_incremental <=> (b.parent_id # NoId)

\* C3: every Backup that create_backup returns or stores has is_incremental
\* true exactly when parent_id is Some.
C3_IncrementalIffParent ==
    /\ \A id \in Advertised(files, issued) : IsConsistent(GetBackup(files, id).v)
    /\ (ret.op = "create" /\ ret.status = "Ok") => IsConsistent(ret.backup)

\* C4: with B1 a stored full backup and no fault, create_backup(incremental =
\* true, parent_backup = B1) returns Ok(B2) with B2.is_incremental and
\* B2.parent_id = Some(B1.id), and list_backups then returns exactly B1 and B2.
C4_IncrementalCreate ==
    (/\ pc = "idle" /\ noFault
     /\ ret.op = "create" /\ ret.incremental /\ ret.parent # NoId
     /\ GetBackup(files, ret.parent).status = "Ok"
     /\ ~GetBackup(files, ret.parent).v.is_incremental)
    => /\ ret.status = "Ok"
       /\ ret.backup.is_incremental
       /\ ret.backup.parent_id = ret.parent
       /\ LET l == ListBackups(files, dirs)
          IN  /\ l.status = "Ok"
              /\ {l.v[i] : i \in 1..Len(l.v)}
                    = {GetBackup(files, ret.parent).v, ret.backup}

\* C5: after delete_backup(id) returned Ok, get_backup(id) returns not-found
\* and the blob path of id is in no listing of the storage backend under the
\* backup prefix.
C5_DeleteRemoves ==
    (pc = "idle" /\ ret.op = "delete" /\ ret.status = "Ok")
    => /\ GetBackup(files, ret.id).status = "Err"
       /\ GetBackup(files, ret.id).err = "NotFound"
       /\ BlobPath(ret.id) \notin LocalList(files, dirs, BackupPrefix).v
       /\ BlobPath(ret.id) \notin
             LocalList(files, dirs, BackupPrefix \o <<Shard(ret.id)>>).v

\* C5 witness: a delete_backup of a created backup has returned Ok
C5_Witness ==
    /\ pc = "idle"
    /\ ret.op = "delete"
    /\ ret.status = "Ok"
    /\ ret.id \in issued

\* C6: with no fault, restore_backup(id, Some(target)) of a stored backup to
\* a target that does not exist yet returns Ok and leaves at target exactly
\* the content the subvolume had when the backup was created.
C6_RestoreRoundTrip ==
    (/\ pc = "idle" /\ noFault
     /\ ret.op = "restore" /\ ret.target \in RestoreTargets /\ ret.fresh
     /\ GetBackup(files, ret.id).status = "Ok"
     /\ BlobComplete(files, ret.id))
    => /\ ret.status = "Ok"
       /\ ret.target \in DOMAIN subvols
       /\ subvols[ret.target] = LocalGet(files, BlobPath(ret.id)).v.v.data

IsNewestFirst(seq) ==
    \A i \in 1..(Len(seq) - 1) : seq[i].created_at >= seq[i + 1].created_at

\* C8: after successful create_backup and delete_backup calls on the local
\* backend, list_backups returns exactly the backups whose metadata is
\* stored and not deleted, newest first.
C8_ListExact ==
    (pc = "idle" /\ noFault /\ ret.op \in {"create", "delete"} /\ ret.status = "Ok")
    => LET l == ListBackups(files, dirs)
           stored == {GetBackup(files, id).v : id \in Advertised(files, issued)}
       IN  /\ l.status = "Ok"
           /\ {l.v[i] : i \in 1..Len(l.v)} = stored
           /\ Len(l.v) = Cardinality(stored)
           /\ IsNewestFirst(l.v)

\* C14: on every exit path of create_backup and restore_backup, success or
\* failure of any step after the temporary file was created, the temporary
\* file of the operation has been removed when the call returns.
C14_TempFileRemoved ==
    [][(/\ pc \in {"c_upload", "c_size", "c_save", "c_cleanup",
                   "r_receive", "r_cleanup"}
        /\ pc' = "idle"
        /\ ret'.status \in {"Ok", "Err"})
       => cur.tmpf \notin DOMAIN tmp']_vars

\* C18: with no fault, a full create_backup on the subvolume succeeds
\* whatever full backups of it were made before and however little time has
\* passed since: it is never refused because its snapshot destination
\* exists, and its id and snapshot path are those of no other stored backup.
C18_SuccessiveFullBackups ==
    (pc = "idle" /\ noFault /\ ret.op = "create"
       /\ ~ret.incremental /\ ret.parent = NoId)
    => /\ ret.status = "Ok"
       /\ \A id \in Advertised(files, issued) \ {ret.backup.id} :
             GetBackup(files, id).v.snapshot_path # ret.backup.snapshot_path

-----------------------------------------------------------------------------
(* Properties of the encryption provider, checked under SpecEnc.           *)

\* C7: for every plaintext length, decrypt(encrypt(p)) returns Ok with
\* exactly p, and encrypt(p) differs from p when p is not empty.
C7_RoundTrip ==
    epc = "done"
    => /\ decrypted.status = "Ok"
       /\ Merge(decrypted.v) = PlainBuf(plain, 0, plain)
       /\ plain > 0 => Merge(cipher) # PlainBuf(plain, 0, plain)

-----------------------------------------------------------------------------
(* Properties of the SnapshotTree, checked under SpecTree.                 *)

IsAddStep == tcount' = tcount + 1 /\ tret'.op = "add"
IsRemoveStep == tcount' = tcount + 1 /\ tret'.op = "remove"
TreeUnchanged == snapshots' = snapshots /\ roots' = roots

\* C9 as stated: add_snapshot of a snapshot whose parent_id is not in the
\* tree returns SnapshotNotFound(parent_id) and leaves the tree unchanged.
C9_AsStated ==
    [][(/\ IsAddStep
        /\ tret'.arg.parent_id # NoTreeId
        /\ tret'.arg.parent_id \notin DOMAIN snapshots)
       => /\ tret'.status = "Err"
          /\ tret'.err = "SnapshotNotFound"
          /\ tret'.errId = tret'.arg.parent_id
          /\ TreeUnchanged]_vars

\* C9: add_snapshot of a snapshot whose id is not in the tree and whose
\* parent_id names an id that is not in the tree (its own id included)
\* returns SnapshotNotFound(parent_id); the tree (snapshots map, roots set,
\* every children_ids list) is unchanged.  When the id is already in the tree
\* the call returns InvalidRelationship and the tree is unchanged as well.
C9_AddMissingParent ==
    [][(/\ IsAddStep
        /\ tret'.arg.parent_id # NoTreeId
        /\ tret'.arg.parent_id \notin DOMAIN snapshots)
       => /\ tret'.status = "Err"
          /\ IF tret'.arg.id \in DOMAIN snapshots
             THEN tret'.err = "InvalidRelationship"
             ELSE /\ tret'.err = "SnapshotNotFound"
                  /\ tret'.errId = tret'.arg.parent_id
          /\ TreeUnchanged]_vars

\* C9 witness: add_snapshot refused a snapshot of a non-empty tree whose
\* parent is missing
C9_Witness ==
    /\ tret.op = "add"
    /\ tret.err = "SnapshotNotFound"
    /\ tret.errId = tret.arg.parent_id
    /\ tret.arg.parent_id \notin DOMAIN snapshots
    /\ snapshots # EmptyMap

C11_PathToSnapshot ==
    \A id \in TreeIds :
        LET r == GetPathToSnapshot(snapshots, id)
        IN  /\ r.status = "Ok"
            /\ IF id \in DOMAIN snapshots
               THEN /\ Len(r.v) >= 1
                    /\ r.v[1] \in DOMAIN snapshots
                    /\ snapshots[r.v[1]].parent_id = NoTreeId
                    /\ r.v[Len(r.v)] = id
                    /\ \A i \in 1..(Len(r.v) - 1) :
                          /\ r.v[i + 1] \in DOMAIN snapshots
                          /\ snapshots[r.v[i + 1]].parent_id = r.v[i]
                    /\ snapshots[id].parent_id = NoTreeId => r.v = <<id>>
               ELSE r.v = <<>>

\* C11 witness: a snapshot in the tree whose path holds its parent and itself,
\* next to an id that is not in the tree
C11_Witness ==
    /\ \E id \in DOMAIN snapshots : Len(GetPathToSnapshot(snapshots, id).v) >= 2
    /\ \E id \in TreeIds : id \notin DOMAIN snapshots

\* the ids reached from id by following parent_id at most n times
RECURSIVE AncestorsWithin(_, _, _)
AncestorsWithin(snaps, id, n) ==
    IF n = 0 \/ id \notin DOMAIN snaps \/ snaps[id].parent_id = NoTreeId
    THEN {}
    ELSE {snaps[id].parent_id}
            \cup AncestorsWithin(snaps, snaps[id].parent_id, n - 1)

\* C12: after any add_snapshot, remove_snapshot and create_snapshot calls the
\* parent relation is a cycle-free forest: every parent_id in the tree names
\* a snapshot in the tree, and no snapshot is among its own ancestors, so
\* following parent_id ends at a snapshot without parent.
C12_CycleFreeForest ==
    \A id \in DOMAIN snapshots :
        /\ snapshots[id].parent_id # NoTreeId
              => snapshots[id].parent_id \in DOMAIN snapshots
        /\ id \notin AncestorsWithin(snapshots, id, Cardinality(DOMAIN snapshots))
        /\ \E r \in {id} \cup AncestorsWithin(snapshots, id,
                                               Cardinality(DOMAIN snapshots)) :
              r \in DOMAIN snapshots /\ snapshots[r].parent_id = NoTreeId

\* C12 witness: a snapshot with a parent and a grandparent in the tree
C12_Witness ==
    \E id \in DOMAIN snapshots :
        /\ snapshots[id].parent_id \in DOMAIN snapshots
        /\ snapshots[snapshots[id].parent_id].parent_id \in DOMAIN snapshots

-----------------------------------------------------------------------------
(* Properties of the local storage backend's path resolution, checked      *)
(* under SpecPath.                                                         *)

HasParentDir(path) == \E i \in 1..Len(path) : path[i] = ParentDir

\* C13: for every logical path with parent-directory segments, relative or
\* beginning with a root component, the location that put, get, delete and
\* exists resolve to lies inside the backend root directory, and so does
\* every file a put has written.
C13_ResolvesInsideRoot ==
    /\ (pret.op # "" /\ HasParentDir(pret.path)) => pret.full[1] = BaseDir
    /\ (pret.op = "put" /\ HasParentDir(pret.path))
          => \E full \in DOMAIN pfiles :
                full[1] = BaseDir /\ pfiles[full] = pret.result.v

-----------------------------------------------------------------------------
(* Further properties of the backup manager, checked under Spec.           *)

\* C15: verify_backup(id), for every string id, made by the manager or not
\* and of any length, returns Ok(true) exactly when the metadata record of
\* id can be fetched and parsed and Ok(false) otherwise, whether or not the
\* blob is stored; it never returns an error and never aborts.
C15_VerifyNeverFails ==
    (pc = "idle" /\ ret.op = "verify")
    => /\ ret.status = "Ok"
       /\ ret.valid = (/\ Len(ret.id) >= 2
                       /\ MetadataExists(files, ret.id)
                       /\ LocalGet(files, MetadataPath(ret.id)).v.ok)

\* C19: when the configuration enables encryption, the blob create_backup
\* uploads is the provider's ciphertext of the send stream (which, carrying
\* a nonce and a tag, differs from the stream) and restore_backup hands
\* Subvolume::receive the decrypted stream; when it does not, the blob is
\* the stream itself.
C19_BlobIsCiphertext ==
    /\ pc = "c_size"
          => (LocalGet(files, BlobPath(cur.id)).v = tmp[cur.tmpf])
                = ~config.encryption.enabled
    /\ pc = "r_receive"
          => (tmp[cur.tmpf] = LocalGet(files, BlobPath(cur.id)).v)
                = ~config.encryption.enabled

-----------------------------------------------------------------------------
(* Properties of concurrent requests on one snapshot manager, checked      *)
(* under SpecRequests.                                                     *)

\* a request between the first and the last step of an insert or a remove
IsUpdating(r) == qpc[r] \in {"c_command", "d_delete"}
\* a request between the first and the last step of a lookup
IsLookingUp(r) == qpc[r] = "l_load"

\* C16: the snapshot index is guarded by a single-writer/multiple-reader
\* lock: while a request is inside an insert or a remove, no other request
\* is inside an insert, a remove or a lookup.
C16_ExclusiveIndexUpdate ==
    \A r1, r2 \in Requests :
        (r1 # r2 /\ IsUpdating(r1)) => ~IsUpdating(r2) /\ ~IsLookingUp(r2)

-----------------------------------------------------------------------------
(* Properties of the API key manager, checked under SpecAuth.              *)

\* thread t has finished the checks of a validate_key call and still holds
\* the read lock
IsValidated(t) == apc[t] = "unlock" /\ areq[t].op = "validate"

\* C17: add_key and remove_key hold the key map exclusively and validate_key
\* holds it shared: no two writers hold the lock together, no writer holds
\* it together with a reader, the map changes only in a step of the one
\* thread that holds it exclusively, and the result of each validate_key is
\* the result against the map as it stands while the call holds its lock,
\* which no concurrent write has changed in part.
C17_ReadersWriterDiscipline ==
    /\ [](/\ Cardinality(lock.writers) <= 1
          /\ lock.writers # {} => lock.readers = {}
          /\ \A t \in Threads :
                IsValidated(t)
                => areq[t].result =
                      CheckKey(areq[t].key \in DOMAIN keys, GetKey(keys, areq[t].key),
                               areq[t].service, areq[t].at))
    /\ [][keys' # keys
            => /\ lock.readers = {}
               /\ \E t \in Threads : lock.writers = {t} /\ apc[t] = "write"]_vars

\* C17 witness: two validations hold the read lock at once, one of them with
\* its result
C17_Witness ==
    /\ lock.readers = Threads
    /\ \E t \in Threads : IsValidated(t) /\ areq[t].result = "Ok"

\* C20: validate_key(key, service) returns Ok only if key is in the map with
\* that service and no expiry earlier than the clock; it returns
\* InvalidApiKey for a key that is not in the map or whose service differs,
\* and the expired error for a key of that service whose expiry is earlier
\* than the clock; remove_key(key) leaves key out of the map, so that a
\* later validate_key(key, _) returns InvalidApiKey; no step of a
\* validate_key call changes the map.
C20_ValidateKey ==
    /\ [](\A t \in Threads :
             IsValidated(t)
             => LET k == areq[t].key
                    known == k \in DOMAIN keys
                    sameService == known /\ keys[k].service = areq[t].service
                    expired == /\ sameService
                               /\ keys[k].expires_at # <<>>
                               /\ keys[k].expires_at[1] < areq[t].at
                IN  /\ areq[t].result = "Ok" <=> sameService /\ ~expired
                    /\ ~sameService => areq[t].result = "InvalidApiKey"
                    /\ expired => areq[t].result = "Other: API key has expired")
    /\ [][\A t \in Threads :
             /\ (apc[t] = "write" /\ apc'[t] = "unlock" /\ areq[t].op = "remove")
                   => areq[t].key \notin DOMAIN keys'
             /\ (areq[t].op = "validate" /\ apc'[t] # apc[t]) => keys' = keys]_vars

\* C20 witness: a validate_key has found its key expired, and the call that
\* returned last was a remove_key
C20_Witness ==
    /\ \E t \in Threads :
          IsValidated(t) /\ areq[t].result = "Other: API key has expired"
    /\ ares.op = "remove"

-----------------------------------------------------------------------------
(* Properties of delete_backup, checked under Spec.                        *)

\* C21: delete_backup(id) fetches the metadata, deletes the blob, deletes the
\* metadata and deletes the snapshot, in this order, and undoes nothing: a
\* step that fails returns an error and leaves storage and disk as the
\* steps before it left them (a failed blob delete leaves the metadata in
\* place); when the metadata cannot be fetched nothing is deleted and an
\* error is returned; a failure to delete the snapshot is not reported, the
\* call returns Ok with blob and metadata removed.
C21_DeleteNotTransactional ==
    /\ [](cur.op = "delete"
            => /\ pc = "d_blob" => MetadataExists(files, cur.id)
               /\ pc = "d_meta" => ~BlobExists(files, cur.id)
                                   /\ MetadataExists(files, cur.id)
               /\ pc = "d_snap" => ~BlobExists(files, cur.id)
                                   /\ ~MetadataExists(files, cur.id))
    /\ [][(cur.op = "delete" /\ pc' = "idle")
            => /\ ret'.status = "Err" => files' = files /\ subvols' = subvols
               /\ pc = "d_get" => ret'.status # "Ok" /\ files' = files
                                  /\ subvols' = subvols
               /\ (pc = "d_snap" /\ ret'.status # "Crash")
                     => /\ ret'.status = "Ok"
                        /\ files' = files
                        /\ ~BlobExists(files', cur.id)
                        /\ ~MetadataExists(files', cur.id)]_vars

\* C21 witness: delete_backup has returned Ok with the metadata removed
\* although a fault kept the snapshot on disk
C21_Witness ==
    /\ pc = "idle" /\ ret.op = "delete" /\ ret.status = "Ok" /\ ~noFault
    /\ ~MetadataExists(files, ret.id)
    /\ \E p \in DOMAIN subvols : p.dir = SnapshotDir

-----------------------------------------------------------------------------
(* Further properties of the encryption provider, checked under SpecEnc.   *)

\* the offsets at which the segments of a ciphertext begin and end
SegmentOffsets(buf) == {BufLen(SubSeq(buf, 1, k)) : k \in 0..Len(buf)}

\* C22: decrypt cuts the ciphertext at the offsets at which encrypt joined
\* its nonce || AEAD(chunk) segments, so every slice pos..end of decrypt's
\* loop begins and ends where a segment begins or ends, and decrypt runs
\* its loop only on ciphertexts that encrypt produced with its loop.
C22_DecryptStride ==
    epc = "decrypting"
    => /\ epos \in SegmentOffsets(cipher)
       /\ epos < BufLen(cipher)
             => Min(epos + ChunkSize + NONCE_SIZE, BufLen(cipher))
                   \in SegmentOffsets(cipher)
       /\ plain >= SmallLimit

-----------------------------------------------------------------------------
(* Further properties of create_backup, checked under Spec.                *)

\* the snapshot of the stored backup id is on disk
SnapshotOnDisk(id) ==
    /\ GetBackup(files, id).status = "Ok"
    /\ GetBackup(files, id).v.snapshot_path \in DOMAIN subvols

\* C23: create_backup with a parent_backup whose snapshot cannot be resolved
\* fails before a new snapshot is taken and leaves storage, disk and the
\* temporary directory unchanged; when the parent's snapshot is on disk the
\* resolution succeeds.
C23_ParentResolution ==
    /\ [][(pc = "c_snapshot" /\ ret'.err = "Parent snapshot not found")
            => /\ ret'.status = "Err"
               /\ files' = files /\ subvols' = subvols /\ tmp' = tmp]_vars
    /\ [](pc = "idle" /\ noFault /\ ret.op = "create" /\ ret.parent # NoId
            /\ SnapshotOnDisk(ret.parent)
          => ret.err # "Parent snapshot not found")

-----------------------------------------------------------------------------
(* Properties of the snapshot and the send stream of a backup, checked     *)
(* under SpecRequests.                                                     *)

\* C24: for an incremental backup the new snapshot is taken of the current
\* subvolume and send is invoked with the parent's snapshot, so the stream
\* holds the delta relative to it; for a full backup send is invoked
\* without a parent.
C24_IncrementalStream ==
    \A r \in Requests :
        qloc[r].stream # NoStream
        => /\ qloc[r].source = SubvolumePath
           /\ qloc[r].stream.base = qloc[r].parent.path

\* C25: delete_snapshot of a snapshot that another snapshot records as its
\* parent fails with InvalidRelationship and leaves the disk as it is; a
\* delete_snapshot that fails deletes nothing.
C25_DeleteKeepsParents ==
    [][\A r \in Requests :
          (qloc[r].op = "delete" /\ qpc[r] # "idle" /\ qpc'[r] = "idle")
          => /\ qloc'[r].status = "Err" => qdisk' = qdisk
             /\ (\E c \in Requests :
                    /\ qloc[c].made.path \in DOMAIN qdisk
                    /\ qloc[c].made.parent_id = qloc[r].id)
                => /\ qloc'[r].err = "InvalidRelationship"
                   /\ qdisk' = qdisk]_vars

-----------------------------------------------------------------------------
(* Properties of the parent and child records of stored backups, checked   *)
(* under Spec.                                                             *)

-----------------------------------------------------------------------------
(* Properties of the roots set and the children lists of the SnapshotTree, *)
(* checked under SpecTree.                                                 *)

\* C27: after any add_snapshot, remove_snapshot and create_snapshot calls the
\* roots set is exactly the set of ids of the snapshots in the tree that have
\* no parent: every root is a key of the map and no snapshot with a parent is
\* a root.
C27_RootsAreParentless ==
    roots = {id \in DOMAIN snapshots : snapshots[id].parent_id = NoTreeId}

\* C27 witness: remove_snapshot has just removed a root while another root
\* stays in the tree
C27_Witness ==
    /\ tret.op = "remove" /\ tret.status = "Ok"
    /\ tret.arg.id = tret.id /\ tret.arg.parent_id = NoTreeId
    /\ tret.id \notin DOMAIN snapshots
    /\ roots # {}

-----------------------------------------------------------------------------
(* Properties of listing and of the parent links of stored backups,        *)
(* checked under Spec.                                                     *)

\* C28: when the metadata object of a backup is stored but does not parse,
\* list_backups still returns Ok with exactly the records that parse, while
\* get_backup of that id is an error and verify_backup of it is Ok(false).
C28_ListSkipsBadMetadata ==
    \A id \in issued :
        (pc = "idle" /\ MetadataExists(files, id)
           /\ GetBackup(files, id).status # "Ok")
        => /\ GetBackup(files, id).status = "Err"
           /\ VerifyBackup(files, id) = Ok(FALSE)
           /\ ListBackups(files, dirs).status = "Ok"
           /\ Range(ListBackups(files, dirs).v)
                 = {GetBackup(files, j).v :
                       j \in {k \in issued : GetBackup(files, k).status = "Ok"}}

-----------------------------------------------------------------------------
(* Agreement of the parent and child records of the SnapshotTree, checked  *)
(* under SpecTree.                                                         *)

\* C29: after any add_snapshot and remove_snapshot calls, whatever Snapshot
\* values add_snapshot was given, every id in a children_ids list names a
\* snapshot in the tree whose parent_id is the owner of the list, every
\* snapshot with a parent appears exactly once in its parent's children_ids,
\* and every snapshot that is no snapshot's parent can be removed.
C29_ParentChildAgree ==
    \A id \in DOMAIN snapshots :
        LET s == snapshots[id]
        IN  /\ \A c \in Range(s.children_ids) :
                  c \in DOMAIN snapshots /\ snapshots[c].parent_id = id
            /\ s.parent_id # NoTreeId
                  => /\ s.parent_id \in DOMAIN snapshots
                     /\ Cardinality({i \in DOMAIN snapshots[s.parent_id].children_ids :
                                       snapshots[s.parent_id].children_ids[i] = id}) = 1
            /\ (\A c \in DOMAIN snapshots : snapshots[c].parent_id # id)
                  => RemoveSnapshot(snapshots, roots, id).status = "Ok"

====
